---- MODULE Spec2Model ----
(***************************************************************************)
(* Model of the lanyard client: the response envelope predicates           *)
(* API.isSuccess / API.isErrored (types.ts) and the fetch operation get    *)
(* with its error type LanyardHTTPError (http.ts).                         *)
(*                                                                         *)
(* Strings that the code builds (the request URL) are sequences of         *)
(* one-character strings, so that concatenation is computed.  Errors are   *)
(* records with a class and a message; a LanyardHTTPError also carries     *)
(* request, response and body.                                             *)
(***************************************************************************)
EXTENDS Integers, Sequences, FiniteSets, TLC

\* Number of invocations of get (and of predicate evaluations) in flight.
NumCalls == 2

Calls == 1..NumCalls

(***************************************************************************)
(* Input domains                                                           *)
(***************************************************************************)

\* Types.Snowflake = `${bigint}`: decimal text of an integer.
ExampleId ==
  <<"1","2","3","4","5","6","7","8","9","0","1","2","3","4","5","6","7","8">>

Snowflakes == { <<"7">>, <<"4","2">>, <<"-","1">>, ExampleId }

\* Response as delivered by fetch: ok is true exactly for a 2xx status.
Statuses == {200, 404}

Responses == { [status |-> s, ok |-> (s \in 200..299)] : s \in Statuses }

\* Types.Presence, cut down to two of its fields.
Presences ==
  { [discord_status |-> "online", active_on_discord_mobile |-> TRUE],
    [discord_status |-> "offline", active_on_discord_mobile |-> FALSE] }

ErrorMessages == {"User not found", "Invalid user id"}

ErrorCodes == {"USER_NOT_FOUND", "INVALID_ID"}

\* API.SuccessfulAPIResponse<Types.Presence>
SuccessfulAPIResponses == { [success |-> TRUE, data |-> d] : d \in Presences }

\* API.ErroredAPIResponse
ErroredAPIResponses ==
  { [success |-> FALSE, error |-> [message |-> m, code |-> c]] :
      m \in ErrorMessages, c \in ErrorCodes }

\* Routes.GetPresence = API.EitherAPIResponse<Types.Presence>
GetPresence == SuccessfulAPIResponses \cup ErroredAPIResponses

\* What fetch(request) can reject with before any response exists.
TransportFailures ==
  { [class |-> "TypeError", message |-> "fetch failed"],
    [class |-> "AbortError", message |-> "The operation was aborted"] }

\* What response.json() can reject with.
ParseFailures ==
  { [class |-> "SyntaxError", message |-> "Unexpected token < in JSON"],
    [class |-> "TypeError", message |-> "Body is unusable"] }

(***************************************************************************)
(* Values for "not there yet"                                              *)
(***************************************************************************)
NoId == <<>>

NoRequest == [url |-> <<>>, method |-> "none"]

NoResponse == [status |-> 0, ok |-> FALSE]

NoBody == [absent |-> TRUE]

NoFailure == [class |-> "none", message |-> ""]

Pending == [kind |-> "pending"]

(***************************************************************************)
(* types.ts: the response envelope model                                   *)
(***************************************************************************)

\* Variant: the transport status is ignored.
isSuccessBodyOnly(resp, bdy) == bdy.success

\* return response.ok && body.success;
isSuccess(resp, bdy) == resp.ok /\ bdy.success

\* Variant: the negation looks at the body's tag alone.
isErroredBodyOnly(resp, bdy) == ~bdy.success

\* return !isSuccess(response, body);
isErrored(resp, bdy) == ~isSuccess(resp, bdy)

(***************************************************************************)
(* http.ts                                                                 *)
(***************************************************************************)

\* The literal part of the template `https://api.lanyard.rest/v1/users/${id}`
UrlPrefix ==
  <<"h","t","t","p","s",":","/","/",
    "a","p","i",".","l","a","n","y","a","r","d",".","r","e","s","t",
    "/","v","1","/","u","s","e","r","s","/">>

\* Variant: the template ends in a slash after the identifier.
RequestUrlTrailingSlash(snowflake) == UrlPrefix \o snowflake \o <<"/">>

\* `https://api.lanyard.rest/v1/users/${id}`
RequestUrl(snowflake) == UrlPrefix \o snowflake

\* new Request(url): a GET with no headers and no body.
NewRequest(snowflake) == [url |-> RequestUrl(snowflake), method |-> "GET"]

\* Reading body.error.message when body has no error field.
UndefinedRead ==
  [class |-> "TypeError",
   message |-> "Cannot read properties of undefined (reading 'message')"]

\* Variant: super(body.error.code).
LanyardHTTPErrorCodeAsMessage(req, resp, bdy) ==
  IF "error" \in DOMAIN bdy
  THEN [class |-> "LanyardHTTPError",
        message |-> bdy.error.code,
        request |-> req,
        response |-> resp,
        body |-> bdy]
  ELSE [class |-> "TypeError",
        message |-> "Cannot read properties of undefined (reading 'code')"]

\* new LanyardHTTPError(request, response, body): super(body.error.message)
\* runs first; with body.error undefined it throws and no error object of
\* this class comes to exist.  The result is the value that ends up thrown.
LanyardHTTPError(req, resp, bdy) ==
  IF "error" \in DOMAIN bdy
  THEN [class |-> "LanyardHTTPError",
        message |-> bdy.error.message,
        request |-> req,
        response |-> resp,
        body |-> bdy]
  ELSE UndefinedRead

\* return <value>
Returned(v) == [kind |-> "returned", value |-> v]

\* throw <error>, or a rejection passing through an await
Thrown(e) == [kind |-> "thrown", error |-> e]

\* Variant: return body instead of body.data.
SettleReturnsBody(req, resp, bdy) ==
  IF ~isSuccess(resp, bdy)
  THEN Thrown(LanyardHTTPError(req, resp, bdy))
  ELSE Returned(bdy)

\* Lines 19-23 of get: the outcome once the body is parsed.
Settle(req, resp, bdy) ==
  IF ~isSuccess(resp, bdy)
  THEN Thrown(LanyardHTTPError(req, resp, bdy))
  ELSE Returned(bdy.data)

VARIABLES
  pc,            \* position of each invocation of get
  id,            \* its argument
  request,       \* const request
  response,      \* const response
  body,          \* const body
  outcome,       \* what the invocation returned or threw
  failure,       \* what fetch or response.json() rejected with
  fetchCalls,    \* number of fetch(request) calls issued
  jsonCalls,     \* number of response.json() calls issued
  successChecks, \* number of API.isSuccess calls made by get
  predResponse,  \* arguments of a direct use of the predicates
  predBody,
  retIsSuccess,  \* values returned by API.isSuccess, in call order
  retIsErrored   \* values returned by API.isErrored, in call order

getVars ==
  <<pc, id, request, response, body, outcome, failure,
    fetchCalls, jsonCalls, successChecks>>

predVars == <<predResponse, predBody, retIsSuccess, retIsErrored>>

vars == <<getVars, predVars>>

InitGet ==
  /\ pc = [i \in Calls |-> "NotStarted"]
  /\ id = [i \in Calls |-> NoId]
  /\ request = [i \in Calls |-> NoRequest]
  /\ response = [i \in Calls |-> NoResponse]
  /\ body = [i \in Calls |-> NoBody]
  /\ outcome = [i \in Calls |-> Pending]
  /\ failure = [i \in Calls |-> NoFailure]
  /\ fetchCalls = [i \in Calls |-> 0]
  /\ jsonCalls = [i \in Calls |-> 0]
  /\ successChecks = [i \in Calls |-> 0]

InitPredIdle ==
  /\ predResponse = [i \in Calls |-> NoResponse]
  /\ predBody = [i \in Calls |-> NoBody]
  /\ retIsSuccess = [i \in Calls |-> <<>>]
  /\ retIsErrored = [i \in Calls |-> <<>>]

Init == InitGet /\ InitPredIdle

\* get(id) up to its first await: build the request, call fetch.
Start(i, snowflake) ==
  /\ pc[i] = "NotStarted"
  /\ id' = [id EXCEPT ![i] = snowflake]
  /\ request' = [request EXCEPT ![i] = NewRequest(snowflake)]
  /\ fetchCalls' = [fetchCalls EXCEPT ![i] = @ + 1]
  /\ pc' = [pc EXCEPT ![i] = "AwaitFetch"]
  /\ UNCHANGED <<response, body, outcome, failure, jsonCalls, successChecks>>
  /\ UNCHANGED predVars

\* Variant: the rejection of fetch is caught and a new error is thrown.
FetchRejectsWrapped(i, f) ==
  /\ pc[i] = "AwaitFetch"
  /\ failure' = [failure EXCEPT ![i] = f]
  /\ outcome' = [outcome EXCEPT ![i] =
                   Thrown([class |-> "Error", message |-> "request failed"])]
  /\ pc' = [pc EXCEPT ![i] = "Failed"]
  /\ UNCHANGED <<id, request, response, body, fetchCalls, jsonCalls,
                 successChecks>>
  /\ UNCHANGED predVars

\* Variant: the rejection of fetch is answered by one more fetch.
FetchRejectsRetry(i, f) ==
  /\ pc[i] = "AwaitFetch"
  /\ failure' = [failure EXCEPT ![i] = f]
  /\ IF fetchCalls[i] < 2
     THEN /\ fetchCalls' = [fetchCalls EXCEPT ![i] = @ + 1]
          /\ UNCHANGED <<pc, outcome>>
     ELSE /\ outcome' = [outcome EXCEPT ![i] = Thrown(f)]
          /\ pc' = [pc EXCEPT ![i] = "Failed"]
          /\ UNCHANGED fetchCalls
  /\ UNCHANGED <<id, request, response, body, jsonCalls, successChecks>>
  /\ UNCHANGED predVars

\* await fetch(request) rejects: get rejects with the same reason.
FetchRejects(i, f) ==
  /\ pc[i] = "AwaitFetch"
  /\ failure' = [failure EXCEPT ![i] = f]
  /\ outcome' = [outcome EXCEPT ![i] = Thrown(f)]
  /\ pc' = [pc EXCEPT ![i] = "Failed"]
  /\ UNCHANGED <<id, request, response, body, fetchCalls, jsonCalls,
                 successChecks>>
  /\ UNCHANGED predVars

\* await fetch(request) resolves; get goes on to call response.json().
FetchResolves(i, resp) ==
  /\ pc[i] = "AwaitFetch"
  /\ response' = [response EXCEPT ![i] = resp]
  /\ jsonCalls' = [jsonCalls EXCEPT ![i] = @ + 1]
  /\ pc' = [pc EXCEPT ![i] = "AwaitJson"]
  /\ UNCHANGED <<id, request, body, outcome, failure, fetchCalls,
                 successChecks>>
  /\ UNCHANGED predVars

\* Variant: a body that does not parse is reported as a LanyardHTTPError.
JsonRejectsWrapped(i, f) ==
  /\ pc[i] = "AwaitJson"
  /\ failure' = [failure EXCEPT ![i] = f]
  /\ outcome' = [outcome EXCEPT ![i] =
                   Thrown([class |-> "LanyardHTTPError",
                           message |-> f.message,
                           request |-> request[i],
                           response |-> response[i],
                           body |-> NoBody])]
  /\ pc' = [pc EXCEPT ![i] = "Failed"]
  /\ UNCHANGED <<id, request, response, body, fetchCalls, jsonCalls,
                 successChecks>>
  /\ UNCHANGED predVars

\* await response.json() rejects: get rejects with the same reason.
JsonRejects(i, f) ==
  /\ pc[i] = "AwaitJson"
  /\ failure' = [failure EXCEPT ![i] = f]
  /\ outcome' = [outcome EXCEPT ![i] = Thrown(f)]
  /\ pc' = [pc EXCEPT ![i] = "Failed"]
  /\ UNCHANGED <<id, request, response, body, fetchCalls, jsonCalls,
                 successChecks>>
  /\ UNCHANGED predVars

\* Variant: request and response are kept in one slot shared by all
\* invocations, so the outcome is computed from the lowest-numbered
\* invocation that has a response.
JsonResolvesShared(i, bdy) ==
  LET k == CHOOSE j \in Calls :
             /\ response[j] # NoResponse
             /\ \A m \in Calls : response[m] # NoResponse => j <= m
  IN
  /\ pc[i] = "AwaitJson"
  /\ body' = [body EXCEPT ![i] = bdy]
  /\ successChecks' = [successChecks EXCEPT ![i] = @ + 1]
  /\ outcome' = [outcome EXCEPT ![i] = Settle(request[k], response[k], bdy)]
  /\ pc' = [pc EXCEPT ![i] =
              IF Settle(request[k], response[k], bdy).kind = "returned"
              THEN "Succeeded" ELSE "Failed"]
  /\ UNCHANGED <<id, request, response, failure, fetchCalls, jsonCalls>>
  /\ UNCHANGED predVars

\* await response.json() resolves; the rest of get runs to its end.
JsonResolves(i, bdy) ==
  /\ pc[i] = "AwaitJson"
  /\ body' = [body EXCEPT ![i] = bdy]
  /\ successChecks' = [successChecks EXCEPT ![i] = @ + 1]
  /\ outcome' = [outcome EXCEPT ![i] = Settle(request[i], response[i], bdy)]
  /\ pc' = [pc EXCEPT ![i] =
              IF Settle(request[i], response[i], bdy).kind = "returned"
              THEN "Succeeded" ELSE "Failed"]
  /\ UNCHANGED <<id, request, response, failure, fetchCalls, jsonCalls>>
  /\ UNCHANGED predVars

Next ==
  \/ \E i \in Calls, s \in Snowflakes : Start(i, s)
  \/ \E i \in Calls, f \in TransportFailures : FetchRejects(i, f)
  \/ \E i \in Calls, r \in Responses : FetchResolves(i, r)
  \/ \E i \in Calls, f \in ParseFailures : JsonRejects(i, f)
  \/ \E i \in Calls, b \in GetPresence : JsonResolves(i, b)

Spec == Init /\ [][Next]_vars

(***************************************************************************)
(* Direct use of the exported predicates on a (response, body) pair        *)
(***************************************************************************)
InitPred ==
  /\ InitGet
  /\ predResponse \in [Calls -> Responses]
  /\ predBody \in [Calls -> GetPresence]
  /\ retIsSuccess = [i \in Calls |-> <<>>]
  /\ retIsErrored = [i \in Calls |-> <<>>]

\* API.isSuccess(response, body)
CallIsSuccess(i) ==
  /\ retIsSuccess[i] = <<>>
  /\ retIsSuccess' =
       [retIsSuccess EXCEPT ![i] = <<isSuccess(predResponse[i], predBody[i])>>]
  /\ UNCHANGED <<predResponse, predBody, retIsErrored>>
  /\ UNCHANGED getVars

\* API.isErrored(response, body)
CallIsErrored(i) ==
  /\ retIsErrored[i] = <<>>
  /\ retIsErrored' =
       [retIsErrored EXCEPT ![i] = <<isErrored(predResponse[i], predBody[i])>>]
  /\ UNCHANGED <<predResponse, predBody, retIsSuccess>>
  /\ UNCHANGED getVars

NextPred ==
  \/ \E i \in Calls : CallIsSuccess(i)
  \/ \E i \in Calls : CallIsErrored(i)

SpecPred == InitPred /\ [][NextPred]_vars

(***************************************************************************)
(* Properties                                                              *)
(***************************************************************************)
Terminal == {"Succeeded", "Failed"}

Awaiting == {"AwaitFetch", "AwaitJson"}

\* C1: a response with ok = true and a body {success: true, data: D} makes
\* get return, and the value returned is exactly D.
C1_ReturnsData ==
  \A i \in Calls :
    (response[i].ok /\ body[i] \in SuccessfulAPIResponses) =>
      /\ pc[i] = "Succeeded"
      /\ outcome[i].kind = "returned"
      /\ outcome[i].value = body[i].data
      /\ outcome[i].value \in Presences

\* An invocation has returned on a 2xx response with a success body.
C1_Witness ==
  \E i \in Calls :
    /\ pc[i] = "Succeeded"
    /\ response[i].ok
    /\ body[i] \in SuccessfulAPIResponses

\* C2: a body {success: false, error: {message: M, code: C}} makes get throw
\* a LanyardHTTPError with message M whose body has error.code C, whatever
\* the status of the response.
C2_ErrorBodyThrows ==
  \A i \in Calls :
    body[i] \in ErroredAPIResponses =>
      /\ pc[i] = "Failed"
      /\ outcome[i].kind = "thrown"
      /\ outcome[i].error.class = "LanyardHTTPError"
      /\ outcome[i].error.message = body[i].error.message
      /\ outcome[i].error.body.error.code = body[i].error.code

\* Two invocations have thrown on an error body, one under a 2xx response
\* and one under a 404, with message and code of different errors.
C2_Witness ==
  \E i, j \in Calls :
    /\ body[i] \in ErroredAPIResponses /\ body[j] \in ErroredAPIResponses
    /\ pc[i] = "Failed" /\ pc[j] = "Failed"
    /\ response[i].ok /\ ~response[j].ok
    /\ body[i].error.message = "User not found"
    /\ body[i].error.code = "INVALID_ID"

\* C3: whenever a parsed body indicates failure per the envelope model
\* (response not ok, or body tagged success: false, the mismatch of a
\* non-ok response with a success body included), get throws the
\* LanyardHTTPError carrying its request, response and body, with the
\* message of the error body where there is one.
C3_FailureThrowsStructuredError ==
  \A i \in Calls :
    (body[i] \in GetPresence /\ ~(response[i].ok /\ body[i].success)) =>
      /\ outcome[i].kind = "thrown"
      /\ outcome[i].error.class = "LanyardHTTPError"
      /\ outcome[i].error.request = request[i]
      /\ outcome[i].error.response = response[i]
      /\ outcome[i].error.body = body[i]
      /\ ("error" \in DOMAIN body[i] =>
            outcome[i].error.message = body[i].error.message)

\* C6: when fetch rejects with F, get rejects with F itself; response.json()
\* and isSuccess are never called and nothing is returned.
C6_TransportFailurePropagates ==
  \A i \in Calls :
    failure[i] \in TransportFailures =>
      /\ pc[i] = "Failed"
      /\ outcome[i].kind = "thrown"
      /\ outcome[i].error = failure[i]
      /\ outcome[i].error.class # "LanyardHTTPError"
      /\ response[i] = NoResponse
      /\ body[i] = NoBody
      /\ jsonCalls[i] = 0
      /\ successChecks[i] = 0

\* Two invocations have failed in fetch, with different failures.
C6_Witness ==
  \E i, j \in Calls :
    /\ failure[i] \in TransportFailures /\ failure[j] \in TransportFailures
    /\ failure[i] # failure[j]
    /\ pc[i] = "Failed" /\ pc[j] = "Failed"

\* C7: when response.json() rejects with P, get rejects with P itself,
\* whatever the ok flag; no LanyardHTTPError is built, nothing is returned.
C7_ParseFailurePropagates ==
  \A i \in Calls :
    failure[i] \in ParseFailures =>
      /\ pc[i] = "Failed"
      /\ outcome[i].kind = "thrown"
      /\ outcome[i].error = failure[i]
      /\ outcome[i].error.class # "LanyardHTTPError"
      /\ response[i] \in Responses
      /\ body[i] = NoBody
      /\ successChecks[i] = 0

\* The body has failed to parse under a 2xx response and under a 404.
C7_Witness ==
  \E i, j \in Calls :
    /\ failure[i] \in ParseFailures /\ failure[j] \in ParseFailures
    /\ pc[i] = "Failed" /\ pc[j] = "Failed"
    /\ response[i].ok /\ ~response[j].ok

\* C8: an invocation issues exactly one fetch and moves NotStarted ->
\* awaiting -> Succeeded or Failed; the two ends are terminal and exclude
\* each other, and awaiting is never entered again.
C8_OneCallNoRetry ==
  /\ [](\A i \in Calls :
          /\ fetchCalls[i] = (IF pc[i] = "NotStarted" THEN 0 ELSE 1)
          /\ pc[i] \in {"NotStarted"} \cup Awaiting \cup Terminal
          /\ (pc[i] = "Succeeded") <=> (outcome[i].kind = "returned")
          /\ (pc[i] = "Failed") <=> (outcome[i].kind = "thrown"))
  /\ [][\A i \in Calls :
          /\ pc[i] \in Terminal =>
               /\ pc'[i] = pc[i]
               /\ outcome'[i] = outcome[i]
               /\ fetchCalls'[i] = fetchCalls[i]
          /\ pc'[i] \in Awaiting => pc[i] \in Awaiting \cup {"NotStarted"}
          /\ pc[i] = "AwaitJson" => pc'[i] # "AwaitFetch"
          /\ pc[i] # "NotStarted" => pc'[i] # "NotStarted"]_vars

\* One invocation has succeeded and another has failed after its fetch
\* was rejected.
C8_Witness ==
  \E i, j \in Calls :
    /\ pc[i] = "Succeeded" /\ fetchCalls[i] = 1
    /\ pc[j] = "Failed" /\ fetchCalls[j] = 1
    /\ failure[j] \in TransportFailures

\* Everything invocation i owns.
Own(i) ==
  <<pc[i], id[i], request[i], response[i], body[i], outcome[i], failure[i],
    fetchCalls[i], jsonCalls[i], successChecks[i]>>

\* C9: concurrent invocations share nothing: a value returned is the data
\* of the invocation's own body, a LanyardHTTPError carries its own request,
\* response and body, equal (response, body) give equal outcomes up to the
\* request, and a step of one invocation changes nothing of another.
C9_Independent ==
  /\ [](\A i \in Calls :
          /\ outcome[i].kind = "returned" =>
               outcome[i].value = body[i].data
          /\ (outcome[i].kind = "thrown"
                /\ outcome[i].error.class = "LanyardHTTPError") =>
               /\ outcome[i].error.request = request[i]
               /\ outcome[i].error.request.url = UrlPrefix \o id[i]
               /\ outcome[i].error.response = response[i]
               /\ outcome[i].error.body = body[i]
          /\ \A j \in Calls :
               (body[i] # NoBody /\ body[i] = body[j]
                  /\ response[i] = response[j]) =>
                 /\ outcome[i].kind = outcome[j].kind
                 /\ outcome[i].kind = "thrown" =>
                      outcome[i].error.class = outcome[j].error.class)
  /\ [][\A i, j \in Calls :
          (i # j /\ Own(i)' # Own(i)) => Own(j)' = Own(j)]_vars

\* Two invocations with different identifiers and different responses
\* have both thrown a LanyardHTTPError.
C9_Witness ==
  \E i, j \in Calls :
    /\ i < j
    /\ id[i] # id[j]
    /\ response[i] # response[j]
    /\ outcome[i].kind = "thrown" /\ outcome[j].kind = "thrown"
    /\ outcome[i].error.class = "LanyardHTTPError"
    /\ outcome[j].error.class = "LanyardHTTPError"

\* The number of places of a text that hold the character ch.
Count(text, ch) == Cardinality({k \in 1..Len(text) : text[k] = ch})

\* What follows the last "/" of a text.
LastSegment(text) ==
  LET slashes == {k \in 1..Len(text) : text[k] = "/"}
      last == CHOOSE k \in slashes : \A m \in slashes : m <= k
  IN SubSeq(text, last + 1, Len(text))

ExampleUrl ==
  <<"h","t","t","p","s",":","/","/",
    "a","p","i",".","l","a","n","y","a","r","d",".","r","e","s","t",
    "/","v","1","/","u","s","e","r","s","/",
    "1","2","3","4","5","6","7","8","9","0","1","2","3","4","5","6","7","8">>

\* C10: the request of get(id) targets https://api.lanyard.rest/v1/users/
\* followed by id as the last path segment and nothing else: no further
\* segment, no query, id as given.
C10_RequestUrl ==
  \A i \in Calls :
    pc[i] # "NotStarted" =>
      LET u == request[i].url IN
      /\ Len(u) = Len(UrlPrefix) + Len(id[i])
      /\ SubSeq(u, 1, Len(UrlPrefix)) = UrlPrefix
      /\ SubSeq(u, Len(UrlPrefix) + 1, Len(u)) = id[i]
      /\ LastSegment(u) = id[i]
      /\ Count(u, "/") = 5
      /\ Count(u, "?") = 0
      /\ Count(u, "#") = 0
      /\ id[i] = ExampleId => u = ExampleUrl

\* An invocation was started with the identifier 123456789012345678 and
\* another with -1.
C10_Witness ==
  \E i, j \in Calls :
    /\ pc[i] # "NotStarted" /\ id[i] = ExampleId
    /\ pc[j] # "NotStarted" /\ id[j] = <<"-", "1">>

\* C4: isSuccess returns true exactly when response.ok is true and
\* body.success is true; in the three other cases it returns false.
C4_IsSuccessIsConjunction ==
  \A i \in Calls :
    retIsSuccess[i] # <<>> =>
      /\ retIsSuccess[i][1] \in BOOLEAN
      /\ (retIsSuccess[i][1] = TRUE) <=>
           (predResponse[i].ok = TRUE /\ predBody[i].success = TRUE)

\* isSuccess has answered true for one pair and false for a 2xx response
\* whose body carries the error tag.
C4_Witness ==
  \E i, j \in Calls :
    /\ retIsSuccess[i] = <<TRUE>>
    /\ retIsSuccess[j] = <<FALSE>>
    /\ predResponse[j].ok
    /\ ~predBody[j].success

\* C5: for every (response, body) exactly one of isSuccess and isErrored
\* is true, and neither call changes the response or the body.
C5_Complements ==
  /\ [](\A i \in Calls :
          (retIsSuccess[i] # <<>> /\ retIsErrored[i] # <<>>) =>
            /\ retIsSuccess[i][1] \/ retIsErrored[i][1]
            /\ ~(retIsSuccess[i][1] /\ retIsErrored[i][1]))
  /\ [][predResponse' = predResponse /\ predBody' = predBody]_vars

\* Both predicates have answered on the mismatch pair: a response that is
\* not ok with a body tagged success.
C5_Witness ==
  \E i \in Calls :
    /\ retIsSuccess[i] # <<>>
    /\ retIsErrored[i] # <<>>
    /\ ~predResponse[i].ok
    /\ predBody[i].success

====
